---- MODULE Spec2Model ----
(***************************************************************************)
(* A model of pyraxial: the Rect lattice (join |, meet &, the order        *)
(* predicates) and the connected-components generator behind               *)
(* Rect.partitions / Rect.bounding_boxes.                                  *)
(*                                                                         *)
(* A Rect is a tuple: <<>> (EMPTY) or <<left, top, right, bottom>>.        *)
(* float("inf") is the integer inf, larger than every finite coordinate   *)
(* of the model, and nan the value float arithmetic gives for inf * 0 and  *)
(* inf - inf; add, mul and leq compute with them as floats do.             *)
(* A list is a function on 0..n (items at 1..n), a non-iterable value a    *)
(* function on {-1}; every other value is a tuple.                         *)
(***************************************************************************)
EXTENDS Integers, Sequences, FiniteSets, TLC

\* Bounds of the model.
MaxCoord == 1      \* finite coordinates of the lattice operands: 0..MaxCoord
NumRects == 6      \* finite rects of the Catalogue a caller passes to partitions
MaxLen == 3        \* longest input collection given to partitions

inf == 1000
nan == 2000

VARIABLES
    input,      \* the collection passed to Rect.bounding_boxes / partitions
    rects,      \* frozenset(filter(None, rects))
    neighbors,  \* the adjacency mapping
    seen,       \* visited nodes
    todo,       \* worklist of the running component(node) generator
    region,     \* nodes yielded so far by the running component(node)
    pending,    \* nodes the outer `for node in neighbors` has not reached
    yielded,    \* components yielded by partitions, in order
    boxes,      \* boxes yielded by bounding_boxes, in order
    pc,         \* position of the generator
    a, b, c,    \* operands of the lattice operations
    res         \* what the last operation applied to the operands returned

partVars == <<input, rects, neighbors, seen, todo, region, pending, yielded,
              boxes, pc>>
latVars == <<a, b, c, res>>
vars == <<input, rects, neighbors, seen, todo, region, pending, yielded,
          boxes, pc, a, b, c, res>>

----------------------------------------------------------------------------
\* Helpers for Python built-ins.

Range(s) == {s[i] : i \in DOMAIN s}

min(coordinates) ==
    CHOOSE x \in Range(coordinates) : \A y \in Range(coordinates) : x <= y

max(coordinates) ==
    CHOOSE x \in Range(coordinates) : \A y \in Range(coordinates) : x >= y

\* Python values that are not tuples: a list, and a number (not iterable).
list(items) == [i \in 0..Len(items) |-> IF i = 0 THEN 0 ELSE items[i]]
number(n) == [i \in {-1} |-> n]

isinstance_tuple(v) == -1 \notin DOMAIN v /\ 0 \notin DOMAIN v
iterable(v) == -1 \notin DOMAIN v

\* tuple(v) of an iterable v
tuple(v) ==
    IF 0 \in DOMAIN v THEN [i \in 1..(Cardinality(DOMAIN v) - 1) |-> v[i]]
    ELSE v

\* Float arithmetic and comparison on the coordinates.
add(p, d) ==
    IF p = nan \/ d = nan THEN nan
    ELSE IF p \in {inf, -inf} THEN (IF d = -p THEN nan ELSE p)
    ELSE IF d \in {inf, -inf} THEN d
    ELSE p + d

mul(v, s) ==
    IF v = nan \/ s = nan THEN nan
    ELSE IF v \in {inf, -inf} \/ s \in {inf, -inf}
         THEN IF v = 0 \/ s = 0 THEN nan
              ELSE IF (v > 0) = (s > 0) THEN inf ELSE -inf
    ELSE v * s

leq(x, y) == x # nan /\ y # nan /\ x <= y

\* zip(*seqs): the tuples of i-th items, as long as the shortest of seqs.
zip(seqs) ==
    IF Len(seqs) = 0 THEN <<>>
    ELSE LET n == min([j \in 1..Len(seqs) |-> Len(seqs[j])])
         IN  [i \in 1..n |-> [j \in 1..Len(seqs) |-> seqs[j][i]]]

\* filter(None, rects): the items that are truthy, i.e. non-empty tuples.
Truthy(r) == Len(r) > 0
filterNone(rs) == SelectSeq(rs, Truthy)

----------------------------------------------------------------------------
\* bounded_by, inflate, deflate

limit(name, coordinates) ==
    IF name = "min" THEN min(coordinates) ELSE max(coordinates)

bound(limiters, rs) ==
    LET cols == zip(rs)
        n == IF Len(cols) < Len(limiters) THEN Len(cols) ELSE Len(limiters)
    IN  [i \in 1..n |-> limit(limiters[i], cols[i])]

\* A limiter of the wrong kind for the bottom coordinate.
inflate_minBottom(rs) == bound(<<"min", "min", "max", "min">>, rs)

\* A limiter of the wrong kind for the top coordinate.
inflate_maxTop(rs) == bound(<<"min", "max", "max", "max">>, rs)

inflate(rs) == bound(<<"min", "min", "max", "max">>, rs)

\* A limiter of the wrong kind for the bottom coordinate.
deflate_maxBottom(rs) == bound(<<"max", "max", "min", "max">>, rs)

\* A limiter of the wrong kind for the left coordinate.
deflate_minLeft(rs) == bound(<<"min", "max", "min", "min">>, rs)

deflate(rs) == bound(<<"max", "max", "min", "min">>, rs)

X0 == 1
Y0 == 2
X1 == 3
Y1 == 4

\* The left coordinate taken twice.
horizontal_leftOnly(rect) == <<rect[X0], rect[X0]>>

horizontal(rect) == <<rect[X0], rect[X1]>>
\* The top coordinate taken twice.
vertical_topOnly(rect) == <<rect[Y0], rect[Y0]>>

vertical(rect) == <<rect[Y0], rect[Y1]>>

\* The itemgetter projections.
left(rect) == rect[X0]
right(rect) == rect[X1]
top(rect) == rect[Y0]
bottom(rect) == rect[Y1]
left_top(rect) == <<rect[X0], rect[Y0]>>
right_top(rect) == <<rect[X1], rect[Y0]>>
left_bottom(rect) == <<rect[X0], rect[Y1]>>
right_bottom(rect) == <<rect[X1], rect[Y1]>>

points(rect) == <<left_top(rect), right_bottom(rect)>>

\* The difference taken the other way round.
width_reversed(rect) == add(rect[X0], -rect[X1])

\* width and height: a difference of two coordinates, as floats subtract
width(rect) == add(rect[X1], -rect[X0])
height(rect) == add(rect[Y1], -rect[Y0])

size(rect) == <<width(rect), height(rect)>>
area(rect) == mul(width(rect), height(rect))

\* The properties of class Rect the claims read, the items each one indexes
\* and the function behind each.
Properties ==
    {"left", "top", "right", "bottom", "left_top", "right_top",
     "left_bottom", "right_bottom", "width", "height", "points", "size",
     "area"}

Indexed(name) ==
    CASE name = "left" -> {X0}
      [] name = "top" -> {Y0}
      [] name = "right" -> {X1}
      [] name = "bottom" -> {Y1}
      [] name = "left_top" -> {X0, Y0}
      [] name = "right_top" -> {X1, Y0}
      [] name = "left_bottom" -> {X0, Y1}
      [] name = "right_bottom" -> {X1, Y1}
      [] name = "width" -> {X1, X0}
      [] name = "height" -> {Y1, Y0}
      [] OTHER -> {X0, Y0, X1, Y1}

fget(name, rect) ==
    CASE name = "left" -> left(rect)
      [] name = "top" -> top(rect)
      [] name = "right" -> right(rect)
      [] name = "bottom" -> bottom(rect)
      [] name = "left_top" -> left_top(rect)
      [] name = "right_top" -> right_top(rect)
      [] name = "left_bottom" -> left_bottom(rect)
      [] name = "right_bottom" -> right_bottom(rect)
      [] name = "width" -> width(rect)
      [] name = "height" -> height(rect)
      [] name = "points" -> points(rect)
      [] name = "size" -> size(rect)
      [] OTHER -> area(rect)

\* rect.<name>: indexing a tuple past its end raises IndexError.
getattr(rect, name) ==
    IF \E i \in Indexed(name) : i \notin DOMAIN rect
    THEN <<"raise", "IndexError">>
    ELSE <<"return", fget(name, rect)>>

----------------------------------------------------------------------------
\* class Rect

invalid == <<"ValueError">>

\* The constructor with strict comparisons: a zero-width box is dropped.
Rect_strict(box) ==
    IF ~iterable(box) THEN invalid
    ELSE LET t == tuple(box)
         IN  IF Len(t) = 4
             THEN IF t[1] < t[3] /\ t[2] < t[4] THEN t ELSE <<>>
             ELSE IF Len(t) = 0 THEN <<>> ELSE invalid

\* Rect.__new__
Rect(box) ==
    IF ~iterable(box) THEN invalid
    ELSE LET t == tuple(box)
         IN  IF Len(t) = 4
             THEN IF leq(t[1], t[3]) /\ leq(t[2], t[4]) THEN t ELSE <<>>
             ELSE IF Len(t) = 0 THEN <<>> ELSE invalid

EMPTY == Rect(<<>>)
PLANE == Rect(<<-inf, -inf, inf, inf>>)

\* The meet without its PLANE seed.
intersection_noPlane(rs) == Rect(deflate(rs))

\* The join without its filter(None, ...).
bounding_box_unfiltered(rs) == Rect(inflate(rs))

bounding_box(rs) == Rect(inflate(filterNone(rs)))
intersection(rs) == Rect(deflate(<<PLANE>> \o rs))

__or__(self, other) == bounding_box(<<self, other>>)
\* The meet operator calling the join.
__and___asJoin(self, other) == bounding_box(<<self, other>>)

__and__(self, other) == intersection(<<self, other>>)

\* Equality that converts its operand before comparing.
__eq___anySequence(self, other) == iterable(other) /\ self = tuple(other)

__eq__(self, other) == isinstance_tuple(other) /\ self = other
__ne__(self, other) == ~isinstance_tuple(other) \/ self # other

\* t == rect for a plain tuple t: the operand of the subclass is asked first.
tuple_eq(t, rect) == __eq__(rect, t)
tuple_ne(t, rect) == __ne__(rect, t)

\* Rect.from_points and Rect.from_size
from_points(lt, rb) == Rect(tuple(lt) \o tuple(rb))
from_size(wh) == from_points(<<0, 0>>, wh)

\* The offsets taken once: zip stops after two coordinates.
move_noDoubling(self, offsets) ==
    LET pairs == zip(<<self, tuple(offsets)>>)
    IN  Rect([i \in DOMAIN pairs |-> add(pairs[i][1], pairs[i][2])])

\* Rect.move
move(self, offsets) ==
    LET pairs == zip(<<self, tuple(offsets) \o tuple(offsets)>>)
    IN  Rect([i \in DOMAIN pairs |-> add(pairs[i][1], pairs[i][2])])

\* The scaled coordinates returned without the constructor.
__mul___raw(self, scalar) == [i \in DOMAIN self |-> mul(self[i], scalar)]

\* Scaling that leaves left and top in place.
__mul___size(self, scalar) ==
    Rect([i \in DOMAIN self |->
            IF i <= 2 THEN self[i] ELSE mul(self[i], scalar)])

\* Rect.__mul__ and Rect.__rmul__
__mul__(self, scalar) == Rect([i \in DOMAIN self |-> mul(self[i], scalar)])
__rmul__(self, scalar) == __mul__(self, scalar)
\* The order test of __ge__ used for __le__.
__le___viaJoin(self, other) == __eq__(self, bounding_box(<<self, other>>))

__le__(self, other) == __eq__(self, intersection(<<self, other>>))
\* The order test of __le__ used for __ge__.
__ge___viaMeet(self, other) == __eq__(self, intersection(<<self, other>>))

__ge__(self, other) == __eq__(self, bounding_box(<<self, other>>))
__lt__(self, other) ==
    __ne__(other, self) /\ __eq__(self, intersection(<<self, other>>))
__gt__(self, other) ==
    __ne__(other, self) /\ __eq__(self, bounding_box(<<self, other>>))

----------------------------------------------------------------------------
\* The interval tree collaborator (package itree): the intervals it was built
\* from, and the closed-interval overlap search.

Interval(rect, ext) == [rect |-> rect, start |-> ext[1], end |-> ext[2]]

ITree(intervals) == intervals

search(tree, q) == {i \in tree : i.start <= q.end /\ q.start <= i.end}

----------------------------------------------------------------------------
\* _connected_components

\* takewhile in place of filter: everything after the first EMPTY is lost.
nonEmptySet_takewhile(rs) ==
    LET stops == {i \in DOMAIN rs : ~Truthy(rs[i])}
        k == IF stops = {} THEN Len(rs) + 1
             ELSE CHOOSE i \in stops : \A j \in stops : i <= j
    IN  Range(SubSeq(rs, 1, k - 1))

\* frozenset(filter(None, rects))
nonEmptySet(rs) == Range(filterNone(rs))

\* The two searches whose results are intersected into neighbors[rect].
hhits(rs, rect) ==
    {i.rect : i \in search(ITree({Interval(r, horizontal(r)) : r \in rs}),
                           Interval(rect, horizontal(rect)))}
vhits(rs, rect) ==
    {i.rect : i \in search(ITree({Interval(r, vertical(r)) : r \in rs}),
                           Interval(rect, vertical(rect)))}

\* Either search result taken as adjacency: union in place of intersection.
adjacency_union(rs) == [rect \in rs |-> hhits(rs, rect) \cup vhits(rs, rect)]

\* The rect itself taken out of its adjacency set.
adjacency_noSelf(rs) ==
    [rect \in rs |-> (hhits(rs, rect) \cap vhits(rs, rect)) \ {rect}]

adjacency(rs) == [rect \in rs |-> hhits(rs, rect) \cap vhits(rs, rect)]

\* The orders in which a set can be iterated.
Orders(S) ==
    {s \in [1..Cardinality(S) -> S] : \A x \in S : \E i \in DOMAIN s : s[i] = x}

\* The rects a caller can hold: the finite ones, EMPTY and PLANE.
FiniteRects(n) ==
    {Rect(<<l, t, r, bt>>) : l \in 0..n, t \in 0..n, r \in 0..n, bt \in 0..n}
        \ {EMPTY}

RectValues(n) == FiniteRects(n) \cup {EMPTY, PLANE}

\* The finite rects given to partitions: a corner-to-corner chain (1, 2, 3),
\* two rects that share only one axis with the chain (4, 5), a rect that
\* encloses the chain (6), a point on a corner (7) and a far rect (8).
Catalogue ==
    << <<1, 1, 2, 2>>, <<2, 2, 3, 3>>, <<3, 3, 4, 4>>, <<1, 5, 2, 6>>,
       <<5, 1, 6, 2>>, <<1, 1, 4, 4>>, <<4, 4, 4, 4>>, <<5, 5, 6, 6>>,
       <<0, 0, 0, 7>> >>

PartRects ==
    {Rect(Catalogue[i]) : i \in 1..NumRects} \cup {EMPTY, PLANE}

Inputs ==
    UNION {[1..n -> PartRects] : n \in 0..MaxLen}

Idle == "idle"

PartIdle ==
    /\ input = <<>>
    /\ rects = {}
    /\ neighbors = <<>>
    /\ seen = {}
    /\ todo = {}
    /\ region = {}
    /\ pending = {}
    /\ yielded = <<>>
    /\ boxes = <<>>
    /\ pc = Idle

LatIdle ==
    /\ a = EMPTY
    /\ b = EMPTY
    /\ c = EMPTY
    /\ res = <<>>

\* Rect.bounding_boxes(rects) is called; nothing has run yet.
Init ==
    /\ input \in Inputs
    /\ rects = {}
    /\ neighbors = <<>>
    /\ seen = {}
    /\ todo = {}
    /\ region = {}
    /\ pending = {}
    /\ yielded = <<>>
    /\ boxes = <<>>
    /\ pc = "start"
    /\ LatIdle

\* Lines 542-560 and 571: the rect set, the adjacency mapping, seen = set().
BuildAdjacency ==
    /\ pc = "start"
    /\ rects' = nonEmptySet(input)
    /\ neighbors' = adjacency(nonEmptySet(input))
    /\ seen' = {}
    /\ pending' = nonEmptySet(input)
    /\ pc' = "outer"
    /\ UNCHANGED <<input, todo, region, yielded, boxes>>
    /\ UNCHANGED latVars

\* `for node in neighbors: if node not in seen:` reaches a visited node.
SkipSeen ==
    /\ pc = "outer"
    /\ \E node \in pending :
        /\ node \in seen
        /\ pending' = pending \ {node}
    /\ UNCHANGED <<input, rects, neighbors, seen, todo, region, yielded,
                   boxes, pc>>
    /\ UNCHANGED latVars

\* The loop without its `if node not in seen` test.
StartComponent_noSeenTest ==
    /\ pc = "outer"
    /\ \E node \in pending :
        /\ pending' = pending \ {node}
        /\ todo' = {node}
    /\ region' = {}
    /\ pc' = "component"
    /\ UNCHANGED <<input, rects, neighbors, seen, yielded, boxes>>
    /\ UNCHANGED latVars

\* The loop reaches an unvisited node: component(node) starts, todo = {node}.
StartComponent ==
    /\ pc = "outer"
    /\ \E node \in pending :
        /\ node \notin seen
        /\ pending' = pending \ {node}
        /\ todo' = {node}
    /\ region' = {}
    /\ pc' = "component"
    /\ UNCHANGED <<input, rects, neighbors, seen, yielded, boxes>>
    /\ UNCHANGED latVars

\* A turn that forgets to push the neighbors.
Pop_noPush ==
    /\ pc = "component"
    /\ todo # {}
    /\ \E node \in todo :
        /\ seen' = seen \cup {node}
        /\ todo' = todo \ {node}
        /\ region' = region \cup {node}
    /\ UNCHANGED <<input, rects, neighbors, pending, yielded, boxes, pc>>
    /\ UNCHANGED latVars

\* A turn that assigns the unseen neighbors to todo (`=` for `|=`).
Pop_assign ==
    /\ pc = "component"
    /\ todo # {}
    /\ \E node \in todo :
        /\ seen' = seen \cup {node}
        /\ todo' = neighbors[node] \ (seen \cup {node})
        /\ region' = region \cup {node}
    /\ UNCHANGED <<input, rects, neighbors, pending, yielded, boxes, pc>>
    /\ UNCHANGED latVars

\* A turn that pushes every neighbor, seen or not.
Pop_pushSeen ==
    /\ pc = "component"
    /\ todo # {}
    /\ \E node \in todo :
        /\ seen' = seen \cup {node}
        /\ todo' = (todo \ {node}) \cup neighbors[node]
        /\ region' = region \cup {node}
    /\ UNCHANGED <<input, rects, neighbors, pending, yielded, boxes, pc>>
    /\ UNCHANGED latVars

\* One turn of `while todo`: pop, mark, push the unseen neighbors, yield node.
Pop ==
    /\ pc = "component"
    /\ todo # {}
    /\ \E node \in todo :
        /\ seen' = seen \cup {node}
        /\ todo' = (todo \ {node}) \cup (neighbors[node] \ (seen \cup {node}))
        /\ region' = region \cup {node}
    /\ UNCHANGED <<input, rects, neighbors, pending, yielded, boxes, pc>>
    /\ UNCHANGED latVars

\* todo is empty: set(component(node)) is yielded and bounding_boxes yields
\* cls.bounding_box(*region), the region being iterated in some order.
YieldComponent ==
    /\ pc = "component"
    /\ todo = {}
    /\ yielded' = Append(yielded, region)
    /\ \E order \in Orders(region) :
        boxes' = Append(boxes, bounding_box(order))
    /\ region' = {}
    /\ pc' = "outer"
    /\ UNCHANGED <<input, rects, neighbors, seen, todo, pending>>
    /\ UNCHANGED latVars

\* The outer loop is exhausted: the generators return.
Finish ==
    /\ pc = "outer"
    /\ pending = {}
    /\ pc' = "done"
    /\ UNCHANGED <<input, rects, neighbors, seen, todo, region, pending,
                   yielded, boxes>>
    /\ UNCHANGED latVars

Next ==
    \/ BuildAdjacency
    \/ SkipSeen
    \/ StartComponent
    \/ Pop
    \/ YieldComponent
    \/ Finish

Spec == Init /\ [][Next]_vars

\* r comes no later than s when rects are listed EMPTY first and then by
\* their coordinates.
ListedBefore(r, s) ==
    \/ Len(r) = 0
    \/ /\ Len(s) = 4
       /\ \E k \in 1..5 :
            /\ \A j \in 1..(k - 1) : r[j] = s[j]
            /\ k = 5 \/ r[k] < s[k]

\* The run reads its input through frozenset(...) alone (line 542): one
\* input is taken for every collection of the same rects, repeated ones
\* included.
FairInit ==
    /\ Init
    /\ \A k \in 1..(Len(input) - 1) : ListedBefore(input[k], input[k + 1])

\* The generator is consumed to the end: it is synchronous, and every step
\* that can be taken is taken.
FairSpec == FairInit /\ [][Next]_vars /\ WF_vars(Next)

----------------------------------------------------------------------------
\* The lattice operations applied to operands a, b, c: the operands are drawn,
\* then one operation is applied to them.

LatRects == RectValues(MaxCoord)

LatInit ==
    /\ a \in LatRects
    /\ b \in LatRects
    /\ c \in LatRects
    /\ res = <<>>
    /\ PartIdle

\* a | b
Join ==
    /\ res = <<>>
    /\ res' = <<"or", __or__(a, b)>>
    /\ UNCHANGED <<a, b, c>>
    /\ UNCHANGED partVars

\* a & b
Meet ==
    /\ res = <<>>
    /\ res' = <<"and", __and__(a, b)>>
    /\ UNCHANGED <<a, b, c>>
    /\ UNCHANGED partVars

\* a <= b, a >= b, a < b, a > b
Compare ==
    /\ res = <<>>
    /\ res' = <<"cmp", __le__(a, b), __ge__(a, b), __lt__(a, b), __gt__(a, b)>>
    /\ UNCHANGED <<a, b, c>>
    /\ UNCHANGED partVars

\* Rect.bounding_box(a, b, c)
BoundingBox ==
    /\ res = <<>>
    /\ res' = <<"bounding_box", bounding_box(<<a, b, c>>)>>
    /\ UNCHANGED <<a, b, c>>
    /\ UNCHANGED partVars

\* Rect.intersection(a, b, c)
Intersection ==
    /\ res = <<>>
    /\ res' = <<"intersection", intersection(<<a, b, c>>)>>
    /\ UNCHANGED <<a, b, c>>
    /\ UNCHANGED partVars

LatNext ==
    \/ Join
    \/ Meet
    \/ Compare
    \/ BoundingBox
    \/ Intersection

LatSpec == LatInit /\ [][LatNext]_vars

----------------------------------------------------------------------------
\* The public operations applied in sequence: a caller constructs a rect,
\* calls an operation on the rect it holds (a) with an argument (b), keeps
\* the returned rect and calls again.  c is the rect the operation was
\* called on, res the name of the operation and what it returned or raised.

\* Largest magnitude of a finite coordinate an operation may return.
MaxAbs == MaxCoord + 1

\* The coordinates a caller passes.
Coords == (-MaxCoord..MaxCoord) \cup {-inf, inf}

\* Boxes of four coordinates, and boxes of any other length up to five.
Boxes4 == [1..4 -> Coords]
BoxesN == UNION {[1..n -> 0..MaxCoord] : n \in {0, 1, 2, 3, 5}}

\* Boxes of small coordinates, the ones compared from both sides.
SmallBoxes == [1..4 -> 0..MaxCoord] \cup {<<>>}

\* Pairs of coordinates (points, sizes).
Pairs == [1..2 -> Coords]

\* Offsets given to move: pairs, and sequences of one or three offsets.
Offsets ==
    [1..2 -> {-1, 0, 1, inf}] \cup [1..1 -> {0, 1}] \cup [1..3 -> {0, 1}]

Scalars == {-1, 0, 1, 2, inf}

\* Every finite coordinate of v is within the magnitude returned.
Within(v) ==
    \A i \in DOMAIN v :
        v[i] \in {inf, -inf, nan} \/ (-MaxAbs <= v[i] /\ v[i] <= MaxAbs)

\* No rect is held and no call has been made.
OpInit ==
    /\ a = EMPTY
    /\ b = <<>>
    /\ c = <<>>
    /\ res = <<>>
    /\ PartIdle

\* A call that returns or raises: the caller holds the rect returned, and
\* still the earlier one when the call raised.
Call(name, arg, result) ==
    /\ pc = Idle
    /\ res = <<>>
    /\ IF result = invalid THEN TRUE ELSE Within(result)
    /\ a' = IF result = invalid THEN a ELSE result
    /\ b' = arg
    /\ c' = a
    /\ res' = <<name, result>>
    /\ UNCHANGED partVars

\* Rect(box).  Construction does not read the rect held, so it is taken
\* where none is held.
New ==
    /\ res = <<>>
    /\ a = EMPTY
    /\ \/ \E box \in Boxes4 \cup BoxesN : Call("Rect", box, Rect(box))
       \/ \E box \in SmallBoxes \cup BoxesN :
            Call("Rect", list(box), Rect(list(box)))
       \/ \E n \in 0..MaxCoord : Call("Rect", number(n), Rect(number(n)))

\* Rect.from_points(left_top, right_bottom)
FromPoints ==
    /\ res = <<>>
    /\ a = EMPTY
    /\ \E lt \in Pairs : \E rb \in Pairs :
        Call("from_points", lt \o rb, from_points(lt, rb))

\* Rect.from_size(size)
FromSize ==
    /\ res = <<>>
    /\ a = EMPTY
    /\ \E wh \in Pairs : Call("from_size", wh, from_size(wh))

\* a | x and a & x
Or ==
    /\ res = <<>>
    /\ \E x \in LatRects : Call("__or__", x, __or__(a, x))
And ==
    /\ res = <<>>
    /\ \E x \in LatRects : Call("__and__", x, __and__(a, x))

\* Rect.bounding_box(x, a) and Rect.intersection(x, a)
BoundingBoxOf ==
    /\ res = <<>>
    /\ \E x \in {EMPTY, PLANE, Rect(<<0, 0, 0, 0>>),
                 Rect(<<-MaxCoord, 0, MaxCoord, 0>>)} :
        Call("bounding_box", x, bounding_box(<<x, a>>))
IntersectionOf ==
    /\ res = <<>>
    /\ \E x \in {EMPTY, PLANE, Rect(<<0, 0, 0, 0>>),
                 Rect(<<-MaxCoord, 0, MaxCoord, 0>>)} :
        Call("intersection", x, intersection(<<x, a>>))

\* a.move(offsets)
Move ==
    /\ res = <<>>
    /\ \E offsets \in Offsets : Call("move", offsets, move(a, offsets))

\* a * scalar and scalar * a
Mul ==
    /\ res = <<>>
    /\ \E scalar \in Scalars :
        \/ Call("__mul__", scalar, __mul__(a, scalar))
        \/ Call("__rmul__", scalar, __rmul__(a, scalar))

\* a == other and a != other, other being a tuple or a list
Eq ==
    /\ pc = Idle
    /\ res = <<>>
    /\ \E x \in {a, EMPTY, PLANE, Rect(<<0, 0, MaxCoord, MaxCoord>>)} :
        \E other \in {x, list(x), number(0)} :
            /\ b' = other
            /\ res' = <<"__eq__", __eq__(a, other), __ne__(a, other)>>
    /\ c' = a
    /\ a' = a
    /\ UNCHANGED partVars

\* Rect(x) == tuple(y) and tuple(x) == Rect(y), with != beside them
EqBoxes ==
    /\ pc = Idle
    /\ res = <<>>
    /\ a = EMPTY
    /\ \E x \in SmallBoxes : \E y \in SmallBoxes :
        /\ b' = x
        /\ c' = y
        /\ res' = <<"eq_boxes", __eq__(Rect(x), tuple(y)),
                    tuple_eq(tuple(x), Rect(y)),
                    __ne__(Rect(x), tuple(y)),
                    tuple_ne(tuple(x), Rect(y))>>
    /\ a' = a
    /\ UNCHANGED partVars

\* Raw sequences of four small coordinates, inverted ones included.
RawOperands == [1..4 -> 0..MaxCoord]

\* a | t, a & t, a <= t and a >= t for a raw sequence t, each beside the
\* same operation on Rect(t)
RawOperand ==
    /\ pc = Idle
    /\ res = <<>>
    /\ \E t \in RawOperands :
        /\ b' = t
        /\ res' = <<"raw_operand",
                    __or__(a, t), __or__(a, Rect(t)),
                    __and__(a, t), __and__(a, Rect(t)),
                    __le__(a, t), __le__(a, Rect(t)),
                    __ge__(a, t), __ge__(a, Rect(t))>>
    /\ c' = a
    /\ a' = a
    /\ UNCHANGED partVars

\* a.<name> for a property of the rect held
Property ==
    /\ pc = Idle
    /\ res = <<>>
    /\ \E name \in Properties :
        /\ b' = name
        /\ res' = <<"property">> \o getattr(a, name)
    /\ c' = a
    /\ a' = a
    /\ UNCHANGED partVars

\* The caller keeps the rect returned for the next call.
Keep ==
    /\ pc = Idle
    /\ res # <<>>
    /\ b' = <<>>
    /\ c' = <<>>
    /\ res' = <<>>
    /\ UNCHANGED a
    /\ UNCHANGED partVars

\* Rect.bounding_boxes(rects) is called; construction apart, it does not
\* read the rect held.
CallBoundingBoxes ==
    /\ pc = Idle
    /\ res = <<>>
    /\ a = EMPTY
    /\ input' \in UNION {[1..n -> LatRects] : n \in 0..2}
    /\ pc' = "start"
    /\ UNCHANGED <<rects, neighbors, seen, todo, region, pending, yielded,
                   boxes>>
    /\ UNCHANGED latVars

\* The generator is exhausted: the caller keeps one of the boxes yielded.
TakeBox ==
    /\ pc = "done"
    /\ \E i \in DOMAIN boxes :
        /\ a' = boxes[i]
        /\ res' = <<"bounding_boxes", boxes[i]>>
    /\ b' = input
    /\ c' = a
    /\ input' = <<>>
    /\ rects' = {}
    /\ neighbors' = <<>>
    /\ seen' = {}
    /\ todo' = {}
    /\ region' = {}
    /\ pending' = {}
    /\ yielded' = <<>>
    /\ boxes' = <<>>
    /\ pc' = Idle

OpNext ==
    \/ New
    \/ FromPoints
    \/ FromSize
    \/ Or
    \/ And
    \/ BoundingBoxOf
    \/ IntersectionOf
    \/ Move
    \/ Mul
    \/ Eq
    \/ EqBoxes
    \/ Property
    \/ RawOperand
    \/ Keep
    \/ CallBoundingBoxes
    \/ BuildAdjacency
    \/ SkipSeen
    \/ StartComponent
    \/ Pop
    \/ YieldComponent
    \/ Finish
    \/ TakeBox

OpSpec == OpInit /\ [][OpNext]_vars

----------------------------------------------------------------------------
\* Reference notions the properties are stated with.

\* Two rects overlap when their meet is not EMPTY.
overlaps(r, s) == intersection(<<r, s>>) # EMPTY

\* The rects of S linked to a rect of R by a chain of overlapping rects of S.
RECURSIVE ReachFrom(_, _)
ReachFrom(S, R) ==
    LET N == R \cup {s \in S : \E r \in R : overlaps(r, s)}
    IN  IF N = R THEN R ELSE ReachFrom(S, N)

ComponentsOf(S) == {ReachFrom(S, {r}) : r \in S}

DistinctNonEmpty(seq) == {seq[i] : i \in DOMAIN seq} \ {EMPTY}

StripEmpty(seq) == SelectSeq(seq, LAMBDA r : r # EMPTY)

SameComponent(r, s) ==
    \E i \in DOMAIN yielded : r \in yielded[i] /\ s \in yielded[i]

YieldedSets == {yielded[i] : i \in DOMAIN yielded}

\* The smallest box around a non-empty set of non-empty rects, coordinate by
\* coordinate.
Hull(S) ==
    << CHOOSE x \in {r[1] : r \in S} : \A r \in S : x <= r[1],
       CHOOSE x \in {r[2] : r \in S} : \A r \in S : x <= r[2],
       CHOOSE x \in {r[3] : r \in S} : \A r \in S : x >= r[3],
       CHOOSE x \in {r[4] : r \in S} : \A r \in S : x >= r[4] >>

\* r and s meet in a boundary edge or corner only.
Touching(r, s) ==
    /\ r # EMPTY /\ s # EMPTY
    /\ r[1] <= s[3] /\ s[1] <= r[3] /\ r[2] <= s[4] /\ s[2] <= r[4]
    /\ \/ r[3] = s[1] \/ s[3] = r[1] \/ r[4] = s[2] \/ s[4] = r[2]

CornerTouching(r, s) ==
    /\ r # EMPTY /\ s # EMPTY
    /\ r[3] = s[1] /\ r[4] = s[2]
    /\ r[1] < r[3] /\ r[2] < r[4] /\ s[1] < s[3] /\ s[2] < s[4]

----------------------------------------------------------------------------
\* C1: after a complete run of Rect.partitions, two non-empty input rects are
\* in the same yielded component if and only if a chain of pairwise
\* overlapping non-empty input rects links them.
C1_ConnectedAndMaximal ==
    pc = "done" =>
        \A r \in DistinctNonEmpty(input) : \A s \in DistinctNonEmpty(input) :
            SameComponent(r, s) <=> s \in ReachFrom(DistinctNonEmpty(input), {r})

\* A run that yielded a component of three rects whose ends do not overlap,
\* i.e. one held together by a chain only.
C1_Witness ==
    /\ pc = "done"
    /\ \E i \in DOMAIN yielded : \E r \in yielded[i] : \E s \in yielded[i] :
        /\ Cardinality(yielded[i]) = 3
        /\ ~overlaps(r, s)

\* C2: the yielded components are non-empty, pairwise disjoint sets of input
\* rects; whenever a component has just been yielded, seen is the union of
\* the components yielded so far; after a complete run every distinct
\* non-empty input rect is in a component.
C2_Partition ==
    /\ \A i \in DOMAIN yielded :
        /\ yielded[i] # {}
        /\ yielded[i] \subseteq DistinctNonEmpty(input)
        /\ \A j \in DOMAIN yielded : i # j => yielded[i] \cap yielded[j] = {}
    /\ pc \in {"outer", "done"} => seen = UNION YieldedSets
    /\ pc = "done" => UNION YieldedSets = DistinctNonEmpty(input)

\* A complete run that yielded two components, one of them with two rects.
C2_Witness ==
    /\ pc = "done"
    /\ Len(yielded) = 2
    /\ \E i \in DOMAIN yielded : Cardinality(yielded[i]) = 2

\* C3: bounding_boxes yields one box per component, the i-th box being the
\* smallest box around the members of the i-th component; a single non-empty
\* input rect comes back as the only box.
C3_OneBoxPerComponent ==
    /\ Len(boxes) = Len(yielded)
    /\ \A i \in DOMAIN boxes : boxes[i] = Hull(yielded[i])
    /\ pc = "done" =>
        \A r \in DistinctNonEmpty(input) :
            DistinctNonEmpty(input) = {r} => boxes = <<r>>

\* A complete run with two boxes, one of them different from every input rect.
C3_Witness ==
    /\ pc = "done"
    /\ Len(boxes) = 2
    /\ \E i \in DOMAIN boxes : \A k \in DOMAIN input : boxes[i] # input[k]

\* C4: rects that meet only in a boundary edge or corner are in the same
\* component, and two such rects alone come back as their joint bounding box.
C4_TouchingIsConnected ==
    pc = "done" =>
        \A r \in DistinctNonEmpty(input) : \A s \in DistinctNonEmpty(input) :
            Touching(r, s) =>
                /\ SameComponent(r, s)
                /\ DistinctNonEmpty(input) = {r, s} =>
                       boxes = <<Rect(<<min(<<r[1], s[1]>>), min(<<r[2], s[2]>>),
                                        max(<<r[3], s[3]>>), max(<<r[4], s[4]>>)>>)>>

\* A complete run over two rects of positive area that share one corner point.
C4_Witness ==
    /\ pc = "done"
    /\ Len(boxes) = 1
    /\ \E i \in DOMAIN input : \E j \in DOMAIN input :
        /\ CornerTouching(input[i], input[j])
        /\ DistinctNonEmpty(input) = {input[i], input[j]}

\* C5: with PLANE among the inputs exactly one component is yielded, it holds
\* every distinct non-empty input rect and no EMPTY, and the only box is PLANE.
C5_PlaneJoinsAll ==
    (pc = "done" /\ \E i \in DOMAIN input : input[i] = PLANE) =>
        /\ Len(yielded) = 1
        /\ yielded[1] = DistinctNonEmpty(input)
        /\ EMPTY \notin yielded[1]
        /\ boxes = <<PLANE>>

\* A complete run over PLANE, EMPTY and a finite rect.
C5_Witness ==
    /\ pc = "done"
    /\ PLANE \in Range(input)
    /\ EMPTY \in Range(input)
    /\ Cardinality(DistinctNonEmpty(input)) = 2
    /\ boxes = <<PLANE>>

\* C6: EMPTY is never a member of the rect set, of seen, of the worklist or of
\* a component; the components of a complete run are those of the input with
\* its EMPTY items removed; an input without a non-empty rect yields no
\* component and no box.
C6_EmptyDiscarded ==
    /\ EMPTY \notin rects \cup seen \cup todo \cup region \cup pending
    /\ \A i \in DOMAIN yielded : EMPTY \notin yielded[i]
    /\ pc = "done" =>
        /\ YieldedSets = ComponentsOf(Range(StripEmpty(input)))
        /\ StripEmpty(input) = <<>> => yielded = <<>> /\ boxes = <<>>

\* A complete run whose input had EMPTY between two rects that do not overlap,
\* which came out as two components.
C6_Witness ==
    /\ pc = "done"
    /\ Len(input) = 3
    /\ input[2] = EMPTY
    /\ input[1] # EMPTY /\ input[3] # EMPTY
    /\ ~overlaps(input[1], input[3])
    /\ Len(yielded) = 2

\* The other case of C6: a complete run over EMPTY rects only.
C6_WitnessAllEmpty ==
    /\ pc = "done"
    /\ Len(input) = 2
    /\ DistinctNonEmpty(input) = {}
    /\ yielded = <<>>

\* C7: the set of component membership sets of a complete run is determined by
\* the set of distinct non-empty input rects, whatever the order and the
\* multiplicities of the input and whatever the iteration and pop order.
C7_OrderIndependent ==
    pc = "done" => YieldedSets = ComponentsOf(DistinctNonEmpty(input))

\* A complete run over an input with a duplicate, whose two distinct rects came
\* out as one component whichever of them the outer loop reached first.
C7_Witness ==
    /\ pc = "done"
    /\ Len(input) = 3
    /\ input[1] = input[3]
    /\ input[1] # input[2]
    /\ Len(yielded) = 1
    /\ Cardinality(yielded[1]) = 2

----------------------------------------------------------------------------
\* What the last lattice operation returned.
Joined == Len(res) > 0 /\ res[1] = "or"
Met == Len(res) > 0 /\ res[1] = "and"
Compared == Len(res) > 0 /\ res[1] = "cmp"

\* C8: EMPTY is the identity of | and the absorbing element of &, PLANE is
\* the identity of & and the absorbing element of |, with the operands in
\* either order.
C8_IdentityAndAbsorbing ==
    /\ Joined =>
        /\ b = EMPTY => res[2] = a
        /\ a = EMPTY => res[2] = b
        /\ (a = PLANE \/ b = PLANE) => res[2] = PLANE
    /\ Met =>
        /\ b = PLANE => res[2] = a
        /\ a = PLANE => res[2] = b
        /\ (a = EMPTY \/ b = EMPTY) => res[2] = EMPTY

\* A finite rect has been joined with EMPTY.
C8_Witness ==
    /\ Joined
    /\ b = EMPTY
    /\ a \in FiniteRects(MaxCoord)
    /\ res[2] = a

\* PLANE has been met with a finite rect.
C8_WitnessMeet ==
    /\ Met
    /\ a = PLANE
    /\ b \in FiniteRects(MaxCoord)
    /\ res[2] = b

\* C9: | and & are idempotent, commutative and associative, and each absorbs
\* the other.
C9_LatticeAxioms ==
    /\ Joined => __or__(a, a) = a
    /\ Met => __and__(a, a) = a
    /\ Joined => res[2] = __or__(b, a)
    /\ Met => res[2] = __and__(b, a)
    /\ Joined => __or__(res[2], c) = __or__(a, __or__(b, c))
    /\ Met => __and__(res[2], c) = __and__(a, __and__(b, c))
    /\ Met => __or__(a, res[2]) = a
    /\ Joined => __and__(a, res[2]) = a

\* Two finite rects that do not contain one another have been joined into a
\* third one, c being a fourth.
C9_Witness ==
    /\ Joined
    /\ a \in FiniteRects(MaxCoord) /\ b \in FiniteRects(MaxCoord)
    /\ c \in FiniteRects(MaxCoord)
    /\ res[2] \notin {a, b, c}
    /\ c \notin {a, b}

\* Two finite rects have been met in a rect that is neither of them.
C9_WitnessMeet ==
    /\ Met
    /\ res[2] \in FiniteRects(MaxCoord)
    /\ res[2] \notin {a, b}

\* C10: <= is a partial order with least element EMPTY and greatest element
\* PLANE, >= is the same order read in the opposite direction, and < and >
\* are transitive.
C10_PartialOrder ==
    Compared =>
        /\ __le__(EMPTY, a) /\ __le__(a, PLANE)
        /\ __ge__(a, EMPTY) /\ __ge__(PLANE, a)
        /\ __le__(a, a) /\ __ge__(a, a)
        /\ (res[2] /\ __le__(b, c)) => __le__(a, c)
        /\ (res[3] /\ __ge__(b, c)) => __ge__(a, c)
        /\ (res[4] /\ __lt__(b, c)) => __lt__(a, c)
        /\ (res[5] /\ __gt__(b, c)) => __gt__(a, c)
        /\ (res[2] /\ __le__(b, a)) <=> __eq__(a, b)
        /\ (res[3] /\ __ge__(b, a)) <=> __eq__(a, b)

\* Three different finite rects have been found to be strictly nested.
C10_Witness ==
    /\ Compared
    /\ res[4]
    /\ __lt__(b, c)
    /\ a # EMPTY
    /\ c # PLANE

\* Two rects have been compared that are not ordered either way.
C10_WitnessIncomparable ==
    /\ Compared
    /\ ~res[2] /\ ~res[3]

----------------------------------------------------------------------------
BBoxed == Len(res) > 0 /\ res[1] = "bounding_box"
Intersected == Len(res) > 0 /\ res[1] = "intersection"

\* outer contains inner, coordinate by coordinate.
Contains(outer, inner) ==
    \/ inner = EMPTY
    \/ /\ inner # EMPTY /\ outer # EMPTY
       /\ outer[1] <= inner[1] /\ outer[2] <= inner[2]
       /\ inner[3] <= outer[3] /\ inner[4] <= outer[4]

\* C11: a <= b holds exactly when b >= a does, and exactly when a is EMPTY
\* or b encloses a coordinate by coordinate; a < b is a <= b with a # b, and
\* a > b is b < a.
C11_OrderByCoordinates ==
    Compared =>
        /\ res[2] <=> __ge__(b, a)
        /\ res[2] <=> Contains(b, a)
        /\ res[3] <=> __le__(b, a)
        /\ res[3] <=> Contains(a, b)
        /\ res[4] <=> (res[2] /\ a # b)
        /\ res[5] <=> __lt__(b, a)

\* A finite rect has been compared with a different finite rect around it.
C11_Witness ==
    /\ Compared
    /\ a \in FiniteRects(MaxCoord) /\ b \in FiniteRects(MaxCoord)
    /\ res[2] /\ res[4] /\ ~res[3] /\ ~res[5]

\* The operand values y with x <= y, and those with y <= x, tabulated.
Above == [x \in LatRects |-> {y \in LatRects : __le__(x, y)}]
Below == [x \in LatRects |-> {y \in LatRects : __le__(y, x)}]

\* C12: bounding_box is the least upper bound and intersection the greatest
\* lower bound of its arguments under <=, for two arguments (|, &) and for
\* three.
C12_LeastUpperGreatestLower ==
    /\ Joined =>
        /\ __le__(a, res[2]) /\ __le__(b, res[2])
        /\ (__le__(a, c) /\ __le__(b, c)) => __le__(res[2], c)
    /\ Met =>
        /\ __le__(res[2], a) /\ __le__(res[2], b)
        /\ (__le__(c, a) /\ __le__(c, b)) => __le__(c, res[2])
    /\ BBoxed =>
        /\ __le__(a, res[2]) /\ __le__(b, res[2]) /\ __le__(c, res[2])
        /\ (Above[a] \cap Above[b] \cap Above[c]) \subseteq Above[res[2]]
    /\ Intersected =>
        /\ __le__(res[2], a) /\ __le__(res[2], b) /\ __le__(res[2], c)
        /\ (Below[a] \cap Below[b] \cap Below[c]) \subseteq Below[res[2]]

\* The bounding box of three finite rects is none of them.
C12_Witness ==
    /\ BBoxed
    /\ a \in FiniteRects(MaxCoord) /\ b \in FiniteRects(MaxCoord)
    /\ c \in FiniteRects(MaxCoord)
    /\ res[2] \notin {a, b, c}

\* The intersection of three different finite rects is a rect and none of them.
C12_WitnessMeet ==
    /\ Intersected
    /\ Cardinality({a, b, c}) = 3
    /\ res[2] \in FiniteRects(MaxCoord)
    /\ res[2] \notin {a, b, c}

\* C13: bounding_box(r1..rn) is the fold EMPTY | r1 | .. | rn and
\* intersection(r1..rn) the fold PLANE & r1 & .. & rn, for n = 0..3 and in
\* every order of the arguments (the operands run over all triples, so that
\* exchanging two arguments and rotating the three gives every order); EMPTY
\* arguments are ignored by bounding_box and force intersection to EMPTY.
C13_VariadicFolds ==
    /\ BBoxed => bounding_box(<<>>) = EMPTY
    /\ Intersected => intersection(<<>>) = PLANE
    /\ BBoxed => bounding_box(<<a>>) = __or__(EMPTY, a)
    /\ Intersected => intersection(<<a>>) = __and__(PLANE, a)
    /\ Joined => res[2] = __or__(__or__(EMPTY, a), b)
    /\ Joined => res[2] = bounding_box(<<a, EMPTY, b, EMPTY>>)
    /\ Met => res[2] = __and__(__and__(PLANE, a), b)
    /\ BBoxed =>
        /\ res[2] = __or__(__or__(__or__(EMPTY, a), b), c)
        /\ res[2] = bounding_box(<<b, a, c>>)
        /\ res[2] = bounding_box(<<b, c, a>>)
    /\ Intersected =>
        /\ res[2] = __and__(__and__(__and__(PLANE, a), b), c)
        /\ res[2] = intersection(<<b, a, c>>)
        /\ res[2] = intersection(<<b, c, a>>)
        /\ EMPTY \in {a, b, c} => res[2] = EMPTY
    /\ BBoxed =>
        bounding_box(<< <<1, 2, 3, 4>>, <<2, 3, 4, 5>>, <<3, 4, 5, 6>> >>)
            = <<1, 2, 5, 6>>
    /\ Intersected =>
        intersection(<< <<1, 2, 3, 4>>, <<2, 3, 4, 5>>, <<3, 4, 5, 6>> >>)
            = <<3, 4, 3, 4>>

\* The bounding box of EMPTY and two finite rects that do not overlap.
C13_Witness ==
    /\ BBoxed
    /\ a = EMPTY
    /\ b \in FiniteRects(MaxCoord) /\ c \in FiniteRects(MaxCoord)
    /\ __and__(b, c) = EMPTY
    /\ res[2] \in FiniteRects(MaxCoord)

\* The intersection of two finite rects and EMPTY.
C13_WitnessMeet ==
    /\ Intersected
    /\ c = EMPTY
    /\ a \in FiniteRects(MaxCoord) /\ b \in FiniteRects(MaxCoord)
    /\ res[2] = EMPTY

\* C14: | and & are monotone in both operands (a <= c and b <= x imply
\* a | b <= c | x and a & b <= c & x), and the two semidistributive
\* inequalities hold.
C14_MonotoneSemidistributive ==
    /\ Joined =>
        /\ __le__(a, c) =>
            \A x \in Above[b] : __le__(res[2], __or__(c, x))
        /\ __le__(__or__(a, __and__(b, c)), __and__(res[2], __or__(a, c)))
    /\ Met =>
        /\ __le__(a, c) =>
            \A x \in Above[b] : __le__(res[2], __and__(c, x))
        /\ __le__(__or__(res[2], __and__(a, c)), __and__(a, __or__(b, c)))

\* Two finite rects have been joined, c being a larger finite rect than a.
C14_Witness ==
    /\ Joined
    /\ a \in FiniteRects(MaxCoord) /\ b \in FiniteRects(MaxCoord)
    /\ c \in FiniteRects(MaxCoord)
    /\ __lt__(a, c)
    /\ \E x \in Above[b] : x \in FiniteRects(MaxCoord) /\ x # b
    /\ res[2] \notin {a, b}

\* A meet in which semidistributivity is a strict inequality.
C14_WitnessStrict ==
    /\ Met
    /\ __lt__(__or__(res[2], __and__(a, c)), __and__(a, __or__(b, c)))

\* a & (b | c) = (a & b) | (a & c)
Distributes(x, y, z) ==
    __and__(x, __or__(y, z)) = __or__(__and__(x, y), __and__(x, z))

\* x <= z implies x | (y & z) = (x | y) & z
Modular(x, y, z) ==
    __le__(x, z) => __or__(x, __and__(y, z)) = __and__(__or__(x, y), z)

\* The triples of operand values on which distributivity fails, and those
\* on which modularity fails.
NonDistributive ==
    {t \in LatRects \X LatRects \X LatRects : ~Distributes(t[1], t[2], t[3])}
NonModular ==
    {t \in LatRects \X LatRects \X LatRects : ~Modular(t[1], t[2], t[3])}

\* C15: distributivity and modularity do not hold in general: in the lattice
\* an operation has been computed in, some rects a, b, c have
\* a & (b | c) # (a & b) | (a & c), and some rects a, b, c with a <= c have
\* a | (b & c) # (a | b) & c.
C15_NotDistributiveNotModular ==
    res # <<>> => (NonDistributive # {} /\ NonModular # {})

\* Three operands that have been met and break distributivity.
C15_Witness ==
    /\ Met
    /\ <<a, b, c>> \in NonDistributive
    /\ __and__(a, __or__(b, c)) # __or__(res[2], __and__(a, c))

\* Three operands that have been joined and break modularity.
C15_WitnessModular ==
    /\ Joined
    /\ <<a, b, c>> \in NonModular
    /\ __le__(a, c)
    /\ __or__(a, __and__(b, c)) # __and__(res[2], c)

----------------------------------------------------------------------------
\* The operations applied in sequence (OpSpec).

Returned(name) == res # <<>> /\ res[1] = name

Finite(r) == Len(r) = 4 /\ \A i \in 1..4 : r[i] \notin {inf, -inf, nan}

\* C16: Rect(box) is total over these cases: length 0 gives EMPTY; length 4
\* with x0 <= x1 and y0 <= y1 gives exactly those coordinates (a zero-width
\* or zero-height box is kept, not EMPTY); length 4 with x0 > x1 or y0 > y1
\* gives EMPTY without an error; any other length, and a non-iterable
\* argument, raise ValueError and never give EMPTY; a Rect rebuilt from its
\* own coordinates equals the Rect.
C16_Construction ==
    Returned("Rect") =>
        /\ ~iterable(b) => res[2] = invalid
        /\ iterable(b) =>
            LET t == tuple(b)
            IN  /\ Len(t) = 0 => res[2] = EMPTY
                /\ (Len(t) = 4 /\ t[1] <= t[3] /\ t[2] <= t[4]) =>
                    /\ res[2] # EMPTY
                    /\ Len(res[2]) = 4
                    /\ \A i \in 1..4 : res[2][i] = t[i]
                /\ (Len(t) = 4 /\ (t[1] > t[3] \/ t[2] > t[4])) =>
                    res[2] = EMPTY
                /\ Len(t) \notin {0, 4} =>
                    /\ res[2] = invalid
                    /\ res[2] # EMPTY
        /\ res[2] = invalid => a = c
        /\ res[2] # invalid =>
            /\ a = res[2]
            /\ __eq__(Rect(tuple(res[2])), res[2])
            /\ __eq__(Rect(res[2]), res[2])

\* A box of zero width and zero height has been kept.
C16_Witness ==
    /\ Returned("Rect")
    /\ isinstance_tuple(b)
    /\ Len(b) = 4
    /\ b[1] = b[3] /\ b[2] = b[4]
    /\ res[2] = b

\* An inverted box has given EMPTY.
C16_WitnessInverted ==
    /\ Returned("Rect")
    /\ isinstance_tuple(b)
    /\ Len(b) = 4
    /\ b[1] > b[3]
    /\ res[2] = EMPTY

\* A box of five numbers, and a number, have raised.
C16_WitnessLength ==
    /\ Returned("Rect")
    /\ isinstance_tuple(b)
    /\ Len(b) = 5
    /\ res[2] = invalid
C16_WitnessNotIterable ==
    /\ Returned("Rect")
    /\ ~iterable(b)
    /\ res[2] = invalid

\* A list of four ordered numbers has been accepted.
C16_WitnessList ==
    /\ Returned("Rect")
    /\ iterable(b) /\ ~isinstance_tuple(b)
    /\ Len(res[2]) = 4
    /\ res[2] # invalid

\* The operations that return a Rect.
RectOps ==
    {"Rect", "from_points", "from_size", "bounding_box", "intersection",
     "__or__", "__and__", "move", "__mul__", "__rmul__", "bounding_boxes"}

\* The empty value, or four coordinates with left <= right, top <= bottom.
IsRect(v) ==
    \/ v = EMPTY
    \/ /\ DOMAIN v = 1..4
       /\ \A i \in 1..4 : v[i] # nan
       /\ v[X0] <= v[X1]
       /\ v[Y0] <= v[Y1]

\* C17: every value the public operations return, in any sequence of them,
\* is the empty value or a 4-tuple with left <= right and top <= bottom;
\* none is a non-empty Rect with inverted coordinates, and every empty
\* result equals Rect.EMPTY.
C17_RectInvariant ==
    /\ IsRect(a)
    /\ \A i \in DOMAIN boxes : IsRect(boxes[i])
    /\ (res # <<>> /\ res[1] \in RectOps) =>
        (res[2] # invalid =>
            /\ IsRect(res[2])
            /\ Len(res[2]) = 0 => __eq__(res[2], EMPTY))

\* A scaling whose product is inverted has returned EMPTY.
C17_Witness ==
    /\ Returned("__mul__")
    /\ b = -1
    /\ Finite(c)
    /\ c[X0] < c[X1]
    /\ res[2] = EMPTY

\* A box yielded by bounding_boxes is held, and a moved rect is held.
C17_WitnessBox ==
    /\ Returned("bounding_boxes")
    /\ Len(b) = 2
    /\ a \notin {b[1], b[2], EMPTY}
C17_WitnessMoved ==
    /\ Returned("move")
    /\ Len(b) = 3
    /\ c # EMPTY
    /\ res[2] = EMPTY

\* The four coordinates of r multiplied by s.
Scaled(r, s) == [i \in 1..4 |-> mul(r[i], s)]

\* C18 as stated: for every non-empty Rect (l, t, r, b) and every scalar s,
\* positive, zero or negative, the product has the coordinates
\* (l*s, t*s, r*s, b*s); EMPTY * s and s * EMPTY are EMPTY.
C18_ScalingAsStated ==
    (Returned("__mul__") \/ Returned("__rmul__")) =>
        IF c = EMPTY THEN res[2] = EMPTY ELSE res[2] = Scaled(c, b)

\* C18: for every non-empty Rect (l, t, r, b) and every scalar s, r * s and
\* s * r are the Rect built from (l*s, t*s, r*s, b*s): the Rect with these
\* coordinates when l*s <= r*s and t*s <= b*s, as for every finite s > 0
\* and, the Rect being finite, for s = 0, and EMPTY when they are not
\* ordered; EMPTY * s and s * EMPTY are EMPTY.
C18_Scaling ==
    (Returned("__mul__") \/ Returned("__rmul__")) =>
        IF c = EMPTY THEN res[2] = EMPTY
        ELSE LET p == Scaled(c, b)
             IN  /\ IF leq(p[1], p[3]) /\ leq(p[2], p[4])
                    THEN res[2] = p
                    ELSE res[2] = EMPTY
                 /\ (b # inf /\ b > 0) => res[2] = p
                 /\ (Finite(c) /\ b = 0) => res[2] = p

\* A finite rect of positive width has been doubled.
C18_Witness ==
    /\ Returned("__mul__")
    /\ b = 2
    /\ Finite(c)
    /\ c[X0] < c[X1]
    /\ res[2] = Scaled(c, b)
    /\ res[2] # c

\* The same from the right, and a scaling by a negative number.
C18_WitnessRight ==
    /\ Returned("__rmul__")
    /\ b = 2
    /\ Finite(c)
    /\ c[Y0] < c[Y1]
    /\ res[2] = Scaled(c, b)
C18_WitnessNegative ==
    /\ Returned("__mul__")
    /\ b < 0
    /\ Finite(c)
    /\ c[X0] < c[X1]
    /\ res[2] = EMPTY

C19_WitnessPlane ==
    /\ Returned("move")
    /\ b = <<1, -1>>
    /\ c = PLANE

\* C20 as stated: a Rect compares equal (== true, != false) to any sequence,
\* tuple or list, of the same values in the same order, EMPTY to any
\* 0-element sequence; != is the negation of ==; and Rect(x) == tuple(y)
\* answers as tuple(x) == Rect(y).
C20_EqualityAsStated ==
    /\ Returned("__eq__") =>
        /\ (iterable(b) /\ tuple(b) = a) => (res[2] /\ ~res[3])
        /\ res[3] = ~res[2]
    /\ Returned("eq_boxes") => res[2] = res[3]

\* C20: a Rect compares equal (== true, != false) to any tuple of the same
\* values in the same order, EMPTY to the 0-element tuple, and to no list;
\* != is the negation of ==; and Rect(x) == tuple(y) answers as
\* tuple(x) == Rect(y) for boxes x and y that the constructor keeps.
C20_Equality ==
    /\ Returned("__eq__") =>
        /\ (isinstance_tuple(b) /\ Len(b) = Len(a)
                /\ \A i \in DOMAIN a : b[i] = a[i]) => (res[2] /\ ~res[3])
        /\ ~isinstance_tuple(b) => (~res[2] /\ res[3])
        /\ res[3] = ~res[2]
    /\ Returned("eq_boxes") =>
        /\ (Rect(b) = tuple(b) /\ Rect(c) = tuple(c)) =>
            (res[2] = res[3] /\ res[4] = res[5])
        /\ res[4] = ~res[2]
        /\ res[5] = ~res[3]

\* A non-empty rect has been compared with the tuple of its coordinates.
C20_Witness ==
    /\ Returned("__eq__")
    /\ a # EMPTY
    /\ isinstance_tuple(b)
    /\ b = a
    /\ res[2]

\* A rect compared with the list of its coordinates, and two kept boxes
\* compared from both sides.
C20_WitnessList ==
    /\ Returned("__eq__")
    /\ a # EMPTY
    /\ iterable(b) /\ ~isinstance_tuple(b)
    /\ tuple(b) = a
    /\ ~res[2]
C20_WitnessBoxes ==
    /\ Returned("eq_boxes")
    /\ Len(b) = 4 /\ Rect(b) = b
    /\ c = b
    /\ res[2] /\ res[3]

\* The coordinates a property of a non-empty rect r is to return.
Stored(name, r) ==
    CASE name = "left" -> r[1]
      [] name = "top" -> r[2]
      [] name = "right" -> r[3]
      [] name = "bottom" -> r[4]
      [] name = "left_top" -> <<r[1], r[2]>>
      [] name = "right_top" -> <<r[3], r[2]>>
      [] name = "left_bottom" -> <<r[1], r[4]>>
      [] name = "right_bottom" -> <<r[3], r[4]>>
      [] name = "points" -> << <<r[1], r[2]>>, <<r[3], r[4]>> >>
      [] name = "width" -> add(r[3], -r[1])
      [] name = "height" -> add(r[4], -r[2])
      [] name = "size" -> <<add(r[3], -r[1]), add(r[4], -r[2])>>
      [] OTHER -> mul(add(r[3], -r[1]), add(r[4], -r[2]))

NoExtent(r, lo, hi) == r[lo] = r[hi] /\ r[lo] \in {inf, -inf}

C21_WitnessEmpty ==
    /\ Returned("property")
    /\ b = "area"
    /\ c = EMPTY
    /\ res[2] = "raise"
C21_WitnessNan ==
    /\ Returned("property")
    /\ b = "area"
    /\ c # EMPTY
    /\ res[3] = nan

----------------------------------------------------------------------------
\* Termination of one run of the generator (FairSpec).

\* A step of `while todo`: the only step that changes todo inside a component.
PopStep == pc = "component" /\ todo' # todo

\* C22: one run of Rect.partitions terminates: each distinct non-empty rect
\* is popped from todo and yielded exactly once over the whole run (a rect in
\* seen is never queued again, no rect is yielded in two components), every
\* `while todo` loop ends with todo empty, and the generator is exhausted
\* after at most n pops for n distinct non-empty rects.
C22_Terminates ==
    /\ <>(pc = "done")
    /\ [][PopStep =>
            \E node \in todo :
                /\ node \notin seen
                /\ node \notin region
                /\ \A i \in DOMAIN yielded : node \notin yielded[i]
                /\ seen' = seen \cup {node}
                /\ region' = region \cup {node}
                /\ Cardinality(seen') = Cardinality(seen) + 1]_vars
    /\ [](todo \cap seen = {})
    /\ [](Cardinality(seen) <= Cardinality(nonEmptySet(input)))
    /\ [](pc \in {"outer", "done"} => todo = {})
    /\ [](pc = "done" =>
            /\ seen = nonEmptySet(input)
            /\ UNION Range(yielded) = seen
            /\ \A i \in DOMAIN yielded : \A j \in DOMAIN yielded :
                i # j => yielded[i] \cap yielded[j] = {})

\* A run over three distinct rects has ended after three pops, one component
\* holding two of them.
C22_Witness ==
    /\ pc = "done"
    /\ Cardinality(seen) = 3
    /\ Len(yielded) = 2
    /\ todo = {}

----------------------------------------------------------------------------
\* The adjacency mapping and the boxes of a run (Spec).

\* The adjacency mapping has been built.
Built == pc # "start"

\* The horizontal extents of r and s overlap, and so do the vertical ones.
ExtentsOverlap(r, s) ==
    /\ r[1] <= s[3] /\ s[1] <= r[3]
    /\ r[2] <= s[4] /\ s[2] <= r[4]

\* For each rect a caller can pass: the rects whose extents overlap its own
\* on both axes, and the rects whose meet with it is not EMPTY.
ExtentsOverlapping ==
    [r \in PartRects \ {EMPTY} |->
        {s \in PartRects \ {EMPTY} : ExtentsOverlap(r, s)}]
Meeting ==
    [r \in PartRects \ {EMPTY} |->
        {s \in PartRects \ {EMPTY} : intersection(<<r, s>>) # EMPTY}]

\* C23: for any two distinct non-empty input rects r and s, s is in
\* neighbors[r] if and only if their horizontal extents overlap and their
\* vertical extents overlap, which holds if and only if
\* Rect.intersection(r, s) is not EMPTY; the relation is symmetric.
C23_AdjacencyIsMeet ==
    Built =>
        \A r \in rects :
            /\ neighbors[r] \ {r} = rects \cap (ExtentsOverlapping[r] \ {r})
            /\ neighbors[r] \ {r} = rects \cap (Meeting[r] \ {r})
            /\ \A s \in neighbors[r] : r \in neighbors[s]

\* Of three rects, two are adjacent through a shared corner and two others
\* overlap on one axis only and are not adjacent.
C23_Witness ==
    /\ Built
    /\ \E r \in rects : \E s \in rects :
        /\ CornerTouching(r, s)
        /\ s \in neighbors[r]
    /\ \E r \in rects : \E s \in rects \ {r} :
        /\ r[1] <= s[3] /\ s[1] <= r[3]
        /\ s \notin neighbors[r]

\* C24 as stated: the adjacency set of each rect is the intersection of the
\* two overlap query results without the rect itself: for every input rect
\* r, r is not a member of neighbors[r].
C24_SelfExcludedAsStated ==
    Built => \A r \in rects : r \notin neighbors[r]

\* C24: the adjacency set of each rect is the intersection of the two
\* overlap query results, the rect itself included: for every non-empty
\* input rect r, r is a member of neighbors[r]; the traversal never queues
\* r again, because it subtracts seen from neighbors[r] after adding r.
C24_SelfIncluded ==
    /\ Built =>
        \A r \in rects :
            /\ r \in neighbors[r]
            /\ neighbors[r] = {r} \cup {s \in rects : ExtentsOverlap(r, s)}
    /\ todo \cap seen = {}

\* A rect with a neighbor besides itself has been popped and is not queued.
C24_Witness ==
    /\ Built
    /\ pc = "component"
    /\ \E r \in seen :
        /\ r \in neighbors[r]
        /\ neighbors[r] # {r}
        /\ r \notin todo
        /\ todo # {}

\* C25: two different components never have the same bounding box: the
\* boxes yielded are pairwise distinct, and the set of them has as many
\* elements as components are yielded.
C25_DistinctBoxes ==
    /\ Len(boxes) = Len(yielded)
    /\ \A i \in DOMAIN boxes : \A j \in DOMAIN boxes :
        i # j => (yielded[i] # yielded[j] /\ boxes[i] # boxes[j])
    /\ Cardinality(Range(boxes)) = Len(yielded)

\* A run has ended with two components, one of them of two rects.
C25_Witness ==
    /\ pc = "done"
    /\ Len(boxes) = 2
    /\ \E i \in DOMAIN yielded : Cardinality(yielded[i]) = 2

----------------------------------------------------------------------------
\* Raw sequences as operands (OpSpec).

\* C26: the binary operators and order predicates give the same result
\* whether a raw 4-element sequence t is used as is or first converted to a
\* Rect, t with inverted coordinates included: a | t = a | Rect(t),
\* a & t = a & Rect(t), (a <= t) = (a <= Rect(t)), (a >= t) = (a >= Rect(t)).
C26_RawOperandAsRect ==
    Returned("raw_operand") =>
        /\ res[2] = res[3]
        /\ res[4] = res[5]
        /\ res[6] = res[7]
        /\ res[8] = res[9]

\* What does hold of the operations: the raw operand and the Rect agree
\* when the constructor keeps t, and for & and <= also when t is inverted.
RawOperandWhenKept ==
    Returned("raw_operand") =>
        /\ Rect(b) = b =>
            (res[2] = res[3] /\ res[4] = res[5] /\ res[6] = res[7]
                /\ res[8] = res[9])
        /\ res[4] = res[5]
        /\ res[6] = res[7]

\* A join with an inverted raw operand differs from the join with its Rect.
RawOperandDiffers ==
    /\ Returned("raw_operand")
    /\ Rect(b) = EMPTY
    /\ res[2] # res[3]
    /\ res[8] # res[9]

====
